---- MODULE Spec2Model ----
(***************************************************************************)
(* Model of the two-tier retrieval engine (retrieval/hybrid_search.py,     *)
(* retrieval/rag_query.py), of the role router (stakeholder/manager.py,    *)
(* the auto-routing part of api.py, stakeholder/document_manager.py) and   *)
(* of role re-vectorization.                                               *)
(*                                                                         *)
(* Similarities are fixed-point numbers in hundredths: 0.8 is 80.          *)
(* Four specifications share the module; each leaves the variables of     *)
(* the other components untouched:                                         *)
(*   SpecRetrieval  HybridRetriever.search and RAGQuerySystem.query        *)
(*   SpecRoute      route_document and _calculate_confidence               *)
(*   SpecIngest     the auto-routing of POST /ingest                       *)
(*   SpecRoles      create_role / update_role / vectorize_existing_roles   *)
(*                  running concurrently against the role tables           *)
(***************************************************************************)
EXTENDS Integers, Sequences, FiniteSets, TLC

VARIABLES
    \* ---- retrieval ----
    parent_documents,   \* ids of the rows of table "parent_documents"
    pc_query,           \* "idle" | "returned": position of the retrieval caller
    call,               \* the arguments of the call that returned last
    results,            \* the list HybridRetriever.search returned
    response,           \* the dict RAGQuerySystem.query returned
    llm_invocations,    \* number of llm.invoke calls made by the last call
    \* ---- routing ----
    pc_route,           \* "idle" | "returned": position of the routing caller
    routing,            \* the dict route_document returned last
    routed_to,          \* routing_results of the last /ingest call
    route_call,         \* what the last routing call saw: the rows the role
                        \* search returned, the manager row, the failed step
    role_documents,     \* rows of table "role_documents"
    next_doc,           \* number of documents ingested so far, plus one
    confidence_call,    \* last _calculate_confidence call: argument, result
    \* ---- role vectors ----
    roles,              \* table "roles": role id -> row
    role_vectors,       \* rows of table "role_vectors"
    proc,               \* the position and locals of every running request
    requests,           \* number of role requests started so far
    \* ---- splitter and chunker ----
    pc_split,           \* "idle" | "returned": position of their caller
    split_call,         \* the arguments of the call that returned last
    sub_chunks,         \* the list _split_section_content returned
    parent_nodes,       \* the list split_markdown returned
    child_nodes,        \* the list chunk_text returned
    \* ---- ingestion pipeline and store ----
    parent_docs,        \* rows of table "parent_docs"
    child_vectors,      \* rows of table "child_vectors"
    issued,             \* number of row ids the store has issued
    pc_ingest,          \* position of the ingest_document call
    ingest,             \* locals of the ingest_document call
    pc_purge,           \* position of the delete_all_data call
    \* ---- embedding model ----
    pc_embed,           \* "idle" | "returned": position of its caller
    embed_call,         \* the arguments of the call that returned last
    embeddings          \* the list of vectors that call returned

retrievalVars == <<parent_documents, pc_query, call, results, response,
                   llm_invocations>>
routingVars == <<pc_route, routing, routed_to, route_call, role_documents,
                 next_doc, confidence_call>>
rolesVars == <<roles, role_vectors, proc, requests>>
splitVars == <<pc_split, split_call, sub_chunks, parent_nodes, child_nodes>>
pipelineVars == <<parent_docs, child_vectors, issued, pc_ingest, ingest,
                  pc_purge>>
ingestionVars == <<splitVars, pipelineVars>>
embeddingVars == <<pc_embed, embed_call, embeddings>>
vars == <<retrievalVars, routingVars, rolesVars, ingestionVars, embeddingVars>>

----------------------------------------------------------------------------
(* Bounds *)
NumParents == 3
MaxCandidates == 3
MaxTopK == 2

ParentIds == 1..NumParents
\* similarities the vector store reports for child fragments; all are above
\* the search threshold 0.3 of HybridRetriever.search
Similarities == {45, 80}
TopKs == 1..MaxTopK

None == "None"

Min(a, b) == IF a < b THEN a ELSE b

\* all sequences over S of length at most n
SeqsUpTo(S, n) == UNION {[1..m -> S] : m \in 0..n}

\* a child_vectors row as match_vectors returns it
Candidates == [parent_id : ParentIds, similarity : Similarities]

\* metadata->>type of a parent row (fixture: one parent of each kind, then text)
ParentType(p) ==
    IF p = 2 THEN "table" ELSE IF p = 3 THEN "image" ELSE "text"

----------------------------------------------------------------------------
(* HybridRetriever *)

\* _fetch_parent_documents, one loop iteration: the result built for the
\* child at position i (the position stands for the child row's identity)
fetch_result(child_matches, i) ==
    [parent_id |-> child_matches[i].parent_id,
     similarity_score |-> child_matches[i].similarity,
     child |-> i,
     type |-> ParentType(child_matches[i].parent_id)]

\* variant: an exception of one iteration leaves the loop; the results
\* gathered before it are returned
skips_child_and_rest(child_matches, table, raising, n) ==
    \/ child_matches[n].parent_id \notin table
    \/ \E i \in raising : i <= n

\* one loop iteration of _fetch_parent_documents adds nothing: the parent
\* row of child n is not found (continue of line 148), or the iteration
\* raises and the except branch continues (lines 166-168)
skips_child(child_matches, table, raising, n) ==
    \/ child_matches[n].parent_id \notin table
    \/ n \in raising

\* _fetch_parent_documents; raising is the set of positions whose iteration
\* raises (the select fails, or the row has no content)
RECURSIVE fetch_parent_documents(_, _, _, _)
fetch_parent_documents(child_matches, table, raising, n) ==
    IF n = 0 THEN <<>>
    ELSE LET prev == fetch_parent_documents(child_matches, table, raising,
                                            n - 1)
         IN  IF skips_child(child_matches, table, raising, n)
             THEN prev
             ELSE Append(prev, fetch_result(child_matches, n))

\* variant: the comparison of line 194 reversed
replaces_entry_if_lower(r, e) == r.similarity_score < e.similarity_score

\* the test of line 194: does result r replace what the dict holds for its
\* parent (entry e)?
replaces_entry(r, e) == r.similarity_score > e.similarity_score

\* the dict seen_parents after the first n results, as the sequence of its
\* values in insertion order (a Python dict keeps a replaced key in place)
RECURSIVE seen_parents(_, _)
seen_parents(res, n) ==
    IF n = 0 THEN <<>>
    ELSE LET prev == seen_parents(res, n - 1)
             r == res[n]
         IN  IF \E i \in DOMAIN prev : prev[i].parent_id = r.parent_id
             THEN [i \in DOMAIN prev |->
                      IF prev[i].parent_id = r.parent_id
                         /\ replaces_entry(r, prev[i])
                      THEN r ELSE prev[i]]
             ELSE Append(prev, r)

\* one step of the stable descending sort: x goes after every element whose
\* score is at least its own
insert_sorted(sorted, x) ==
    LET k == Cardinality({i \in DOMAIN sorted :
                             sorted[i].similarity_score >= x.similarity_score})
    IN  SubSeq(sorted, 1, k) \o <<x>> \o SubSeq(sorted, k + 1, Len(sorted))

\* sorted(values, key=similarity_score, reverse=True): stable
RECURSIVE sorted_by_similarity(_, _)
sorted_by_similarity(s, n) ==
    IF n = 0 THEN <<>>
    ELSE insert_sorted(sorted_by_similarity(s, n - 1), s[n])

\* variant: the slice is forgotten
take_all(s, top_k) == s

\* the slice [:top_k]
take_top_k(s, top_k) == SubSeq(s, 1, Min(top_k, Len(s)))

\* variant: every result is kept, no grouping by parent
deduplicate_results_keep_all(res, top_k) ==
    take_top_k(sorted_by_similarity(res, Len(res)), top_k)

\* _deduplicate_results
deduplicate_results(res, top_k) ==
    LET seen == seen_parents(res, Len(res))
    IN  take_top_k(sorted_by_similarity(seen, Len(seen)), top_k)

\* HybridRetriever.search, after the vector search returned child_matches
search(child_matches, top_k, table, raising) ==
    IF child_matches = <<>> THEN <<>>
    ELSE deduplicate_results(
             fetch_parent_documents(child_matches, table, raising,
                                    Len(child_matches)),
             top_k)

----------------------------------------------------------------------------
(* RAGQuerySystem *)

NoInfoAnswer == "I couldn't find any relevant information to answer your question."
ErrorPrefix == "Error generating response: "

\* what llm.invoke does: returns a completion (stripped by the caller, so it
\* may be empty) or raises with a message (str(e) may be empty)
LlmOutcomes ==
    {[ok |-> TRUE, text |-> "Answer [Source 1]"],
     [ok |-> TRUE, text |-> ""],
     [ok |-> FALSE, text |-> "503 unavailable"],
     [ok |-> FALSE, text |-> ""]}

\* variant: the except branch returns the bare message
generate_answer_bare(llm) == llm.text

\* _generate_answer
generate_answer(llm) ==
    IF llm.ok THEN llm.text ELSE ErrorPrefix \o llm.text

\* _extract_sources
extract_sources(res) ==
    [i \in 1..Len(res) |->
        [source_number |-> i,
         parent_id |-> res[i].parent_id,
         type |-> res[i].type,
         similarity_score |-> res[i].similarity_score]]

\* variant: no short-circuit on an empty result list
reaches_generator_always(res) == TRUE

\* does query reach the generator for these results (line 60)
reaches_generator(res) == res # <<>>

\* RAGQuerySystem.query
query(res, llm) ==
    IF ~reaches_generator(res)
    THEN [answer |-> NoInfoAnswer, sources |-> <<>>, retrieved_chunks |-> <<>>]
    ELSE [answer |-> generate_answer(llm),
          sources |-> extract_sources(res),
          retrieved_chunks |-> res]

NoLlm == [ok |-> FALSE, text |-> None]
NoCall == [op |-> None, child_matches |-> <<>>, top_k |-> 0, llm |-> NoLlm,
           raising |-> {}, include_tables |-> TRUE, include_images |-> TRUE]
NoResponse == [answer |-> None, sources |-> <<>>, retrieved_chunks |-> <<>>]

\* the rows of parent_documents are, up to a renaming of the parents, the
\* first n ids
RetrievalInit ==
    /\ parent_documents \in {1..n : n \in 0..NumParents}
    /\ pc_query = "idle"
    /\ call = NoCall
    /\ results = <<>>
    /\ response = NoResponse
    /\ llm_invocations = 0

\* a direct call of HybridRetriever.search
Search ==
    /\ pc_query = "idle"
    /\ \E child_matches \in SeqsUpTo(Candidates, MaxCandidates), top_k \in TopKs :
          \E raising \in SUBSET DOMAIN child_matches :
              /\ call' = [NoCall EXCEPT !.op = "search",
                                        !.child_matches = child_matches,
                                        !.top_k = top_k,
                                        !.raising = raising]
              /\ results' = search(child_matches, top_k, parent_documents,
                                   raising)
    /\ pc_query' = "returned"
    /\ UNCHANGED <<parent_documents, response, llm_invocations>>
    /\ UNCHANGED <<routingVars, rolesVars, ingestionVars, embeddingVars>>

\* a call of RAGQuerySystem.query with the default flags; every parent
\* fetch of its search either finds the row or does not (Search covers the
\* fetches that raise)
Query ==
    /\ pc_query = "idle"
    /\ \E child_matches \in SeqsUpTo(Candidates, MaxCandidates), top_k \in TopKs,
          llm \in LlmOutcomes :
          LET res == search(child_matches, top_k, parent_documents, {})
          IN  /\ call' = [NoCall EXCEPT !.op = "query",
                                        !.child_matches = child_matches,
                                        !.top_k = top_k,
                                        !.llm = llm]
              /\ results' = res
              /\ response' = query(res, llm)
              /\ llm_invocations' = IF reaches_generator(res) THEN 1 ELSE 0
    /\ pc_query' = "returned"
    /\ UNCHANGED parent_documents
    /\ UNCHANGED <<routingVars, rolesVars, ingestionVars, embeddingVars>>

\* POST /query (api.py): the request's include_tables and include_images
\* are handed to RAGQuerySystem.query (lines 298-301), whose body never reads
\* them: the retriever is called with the question and top_k only
\* (rag_query.py line 58)
QuerySystem ==
    /\ pc_query = "idle"
    /\ \E child_matches \in SeqsUpTo(Candidates, MaxCandidates), top_k \in TopKs,
          llm \in LlmOutcomes, include_tables \in BOOLEAN,
          include_images \in BOOLEAN :
          LET res == search(child_matches, top_k, parent_documents, {})
          IN  /\ call' = [NoCall EXCEPT !.op = "query_system",
                                        !.child_matches = child_matches,
                                        !.top_k = top_k,
                                        !.llm = llm,
                                        !.include_tables = include_tables,
                                        !.include_images = include_images]
              /\ results' = res
              /\ response' = query(res, llm)
              /\ llm_invocations' = IF reaches_generator(res) THEN 1 ELSE 0
    /\ pc_query' = "returned"
    /\ UNCHANGED parent_documents
    /\ UNCHANGED <<routingVars, rolesVars, ingestionVars, embeddingVars>>

\* the caller has consumed the return value
QueryReturn ==
    /\ pc_query = "returned"
    /\ pc_query' = "idle"
    /\ call' = NoCall
    /\ results' = <<>>
    /\ response' = NoResponse
    /\ llm_invocations' = 0
    /\ UNCHANGED parent_documents
    /\ UNCHANGED <<routingVars, rolesVars, ingestionVars, embeddingVars>>

----------------------------------------------------------------------------
(* RoleManager: routing *)

NumRoles == 3
MaxDocs == 1

RoleIds == 1..NumRoles

\* similarities of a document summary to a role vector
RouteSimilarities == {40, 50, 70, 81, 88, 91}

HighConfidence == 80
MediumConfidence == 65
FallbackSimilarity == 50
DefaultThreshold == 60
IngestThreshold == 40
IngestTopK == 3
CloseGap == 10
SecondFloor == 50

\* variant: strict comparisons
calculate_confidence_strict(similarity) ==
    IF similarity > HighConfidence THEN "high"
    ELSE IF similarity > MediumConfidence THEN "medium"
    ELSE "low"

\* _calculate_confidence
calculate_confidence(similarity) ==
    IF similarity >= HighConfidence THEN "high"
    ELSE IF similarity >= MediumConfidence THEN "medium"
    ELSE "low"

\* the roles of S by similarity, best first (ties: lower role id first)
RECURSIVE rank_roles(_, _)
rank_roles(S, sims) ==
    IF S = {} THEN <<>>
    ELSE LET best == CHOOSE r \in S : \A q \in S :
                        \/ sims[r] > sims[q]
                        \/ sims[r] = sims[q] /\ r <= q
         IN  <<[role_id |-> best, similarity |-> sims[best]]>>
             \o rank_roles(S \ {best}, sims)

\* the stored procedure match_roles: the match_count most similar roles
\* above match_threshold, best first
match_roles(sims, match_threshold, match_count) ==
    LET ranked == rank_roles({r \in RoleIds : sims[r] > match_threshold}, sims)
    IN  SubSeq(ranked, 1, Min(match_count, Len(ranked)))

\* the RoleMatch built in the loop of route_document (lines 254-265)
role_match(match_data) ==
    [role_id |-> match_data.role_id,
     similarity |-> match_data.similarity,
     confidence |-> calculate_confidence(match_data.similarity)]

\* no role, and the RoleMatch that stands for Python's None
NoRole == 0
NoMatch == [role_id |-> NoRole, similarity |-> 0, confidence |-> None]

\* variant: the tier of the fallback match computed from its similarity
get_manager_role_computed_tier(manager) ==
    IF manager # NoRole
    THEN [role_id |-> manager,
          similarity |-> FallbackSimilarity,
          confidence |-> calculate_confidence(FallbackSimilarity)]
    ELSE NoMatch

\* _get_manager_role: manager is the role of the row the stored procedure
\* get_manager_role returned, NoRole if it returned no row
get_manager_role(manager) ==
    IF manager # NoRole
    THEN [role_id |-> manager,
          similarity |-> FallbackSimilarity,
          confidence |-> "medium"]
    ELSE NoMatch

\* route_document, after the role search returned data
route_document(data, manager) ==
    LET matches == [i \in 1..Len(data) |-> role_match(data[i])]
        fallback_match == get_manager_role(manager)
    IN  IF matches # <<>>
        THEN [matches |-> matches, best_match |-> matches[1],
              fallback_used |-> FALSE]
        ELSE IF fallback_match # NoMatch
        THEN [matches |-> <<fallback_match>>, best_match |-> fallback_match,
              fallback_used |-> TRUE]
        ELSE [matches |-> <<>>, best_match |-> NoMatch, fallback_used |-> FALSE]

\* what the stored procedure get_manager_role may return when route_document
\* calls it, which it does only when the role search returned nothing
manager_rows(data) ==
    IF data = <<>> THEN RoleIds \cup {NoRole} ELSE {NoRole}

NoRouting == [matches |-> <<>>, best_match |-> NoMatch, fallback_used |-> FALSE]
NoRouteCall == [op |-> None, data |-> <<>>, manager |-> NoRole,
                doc_id |-> 0, failed |-> None]
NoConfidenceCall == [similarity |-> -1, confidence |-> None]

RoutingInit ==
    /\ pc_route = "idle"
    /\ routing = NoRouting
    /\ routed_to = <<>>
    /\ route_call = NoRouteCall
    /\ role_documents = {}
    /\ next_doc = 1
    /\ confidence_call = NoConfidenceCall

\* POST /roles/route, test_routing: a plain call of route_document
RouteDocument ==
    /\ pc_route = "idle"
    /\ \E sims \in [RoleIds -> RouteSimilarities],
          top_k \in 1..NumRoles,
          threshold \in {IngestThreshold, DefaultThreshold} :
          LET data == match_roles(sims, threshold, top_k)
          IN  \E manager \in manager_rows(data) :
                  /\ route_call' = [op |-> "route", data |-> data,
                                    manager |-> manager, doc_id |-> 0,
                                    failed |-> "none"]
                  /\ routing' = route_document(data, manager)
    /\ pc_route' = "returned"
    /\ UNCHANGED <<routed_to, role_documents, next_doc, confidence_call>>
    /\ UNCHANGED <<retrievalVars, rolesVars, ingestionVars, embeddingVars>>

\* a call of _calculate_confidence
CalculateConfidence ==
    /\ pc_route = "idle"
    /\ \E similarity \in 0..100 :
          confidence_call' = [similarity |-> similarity,
                              confidence |-> calculate_confidence(similarity)]
    /\ pc_route' = "returned"
    /\ UNCHANGED <<routing, routed_to, route_call, role_documents, next_doc>>
    /\ UNCHANGED <<retrievalVars, rolesVars, ingestionVars, embeddingVars>>

\* the caller has consumed the return value
RouteReturn ==
    /\ pc_route = "returned"
    /\ pc_route' = "idle"
    /\ routing' = NoRouting
    /\ routed_to' = <<>>
    /\ route_call' = NoRouteCall
    /\ confidence_call' = NoConfidenceCall
    /\ UNCHANGED <<role_documents, next_doc>>
    /\ UNCHANGED <<retrievalVars, rolesVars, ingestionVars, embeddingVars>>

----------------------------------------------------------------------------
(* api.py: auto-routing at ingestion *)

\* variant: the floor of line 222 not strict
is_close_second_or_at_floor(top_match, second_match) ==
    /\ top_match.similarity - second_match.similarity < CloseGap
    /\ second_match.similarity >= SecondFloor

\* the test of line 222
is_close_second(top_match, second_match) ==
    /\ top_match.similarity - second_match.similarity < CloseGap
    /\ second_match.similarity > SecondFloor

\* variant: every lower-ranked match is considered
second_matches_all_lower(matches) == SubSeq(matches, 2, Len(matches))

\* the matches considered for a secondary assignment (lines 218-219)
second_matches(matches) ==
    IF Len(matches) > 1 THEN <<matches[2]>> ELSE <<>>

\* the row assign_document_to_role inserts into role_documents
assignment(doc_id, match, primary, fallback_used) ==
    [document_id |-> doc_id,
     role_id |-> match.role_id,
     confidence |-> match.similarity,
     primary_assignment |-> primary,
     fallback_used |-> fallback_used]

\* the entry appended to routing_results
routing_result(match, primary) ==
    [role |-> match.role_id, similarity |-> match.similarity,
     primary |-> primary]

\* the secondary matches of a routing that pass the closeness test
close_seconds(matches) ==
    SelectSeq(second_matches(matches),
              LAMBDA m : is_close_second(matches[1], m))

\* the calls of the auto-routing block that can raise: route_document, the
\* primary assign_document_to_role if there is a match, the secondary one if
\* it is made
failure_points(matches) ==
    {"none", "route"}
    \cup (IF matches # <<>> THEN {"primary"} ELSE {})
    \cup (IF matches # <<>> /\ close_seconds(matches) # <<>>
          THEN {"secondary"} ELSE {})

\* the rows the auto-routing block of ingest_document (lines 182-249) writes
\* for document doc_id; the first raising call ends the block
auto_route_rows(doc_id, route, failed) ==
    IF failed \in {"route", "primary"} \/ route.matches = <<>> THEN {}
    ELSE {assignment(doc_id, route.matches[1], TRUE, route.fallback_used)}
         \cup
         (IF failed = "secondary" THEN {}
          ELSE {assignment(doc_id, close_seconds(route.matches)[i], FALSE,
                           route.fallback_used) :
                   i \in DOMAIN close_seconds(route.matches)})

\* routing_results at the end of the block
auto_route_results(route, failed) ==
    IF failed \in {"route", "primary"} \/ route.matches = <<>> THEN <<>>
    ELSE <<routing_result(route.matches[1], TRUE)>>
         \o (IF failed = "secondary" THEN <<>>
             ELSE [i \in DOMAIN close_seconds(route.matches) |->
                      routing_result(close_seconds(route.matches)[i], FALSE)])

\* POST /ingest from the end of pipeline.ingest_document on: every ingestion
\* gets a fresh document id (pdf_processor.process_pdf, uuid4)
IngestDocument ==
    /\ pc_route = "idle"
    /\ next_doc <= MaxDocs
    /\ \E sims \in [RoleIds -> RouteSimilarities] :
          LET data == match_roles(sims, IngestThreshold, IngestTopK)
          IN  \E manager \in manager_rows(data) :
                  \E failed \in failure_points(route_document(data, manager).matches) :
                      LET route == IF failed = "route" THEN NoRouting
                                   ELSE route_document(data, manager)
                      IN  /\ route_call' = [op |-> "ingest", data |-> data,
                                            manager |-> manager,
                                            doc_id |-> next_doc,
                                            failed |-> failed]
                          /\ routing' = route
                          /\ role_documents' =
                                 role_documents
                                 \cup auto_route_rows(next_doc, route, failed)
                          /\ routed_to' = auto_route_results(route, failed)
    /\ next_doc' = next_doc + 1
    /\ pc_route' = "returned"
    /\ UNCHANGED confidence_call
    /\ UNCHANGED <<retrievalVars, rolesVars, ingestionVars, embeddingVars>>

----------------------------------------------------------------------------
(* RoleManager: role records and their vectors *)

NumProcs == 2
MaxRequests == 3

Procs == 1..NumProcs

\* responsibilities texts (RoleBase requires at least 20 characters)
Texts == {"inspects construction sites", "approves supplier invoices"}
\* marks an absent roles row, and an update that leaves the text alone
NoText == ""

IdleProc == [pc |-> "idle", op |-> None, role_id |-> NoRole,
             responsibilities |-> NoText, todo |-> <<>>, outcome |-> None]

\* role_vectors rows of one role
vectors_of(table, role_id) == {v \in table : v.role_id = role_id}

\* the id the store gives a new role_vectors row (any id not in use)
new_vector_id(table) ==
    CHOOSE i \in 1..(Cardinality(table) + 1) : \A v \in table : v.id # i

\* list_roles(active_only=False): the rows of S ordered by role
RECURSIVE list_roles(_, _)
list_roles(table, S) ==
    IF S = {} THEN <<>>
    ELSE LET r == CHOOSE x \in S : \A y \in S : x <= y
         IN  <<[role_id |-> r, responsibilities |-> table[r]]>>
             \o list_roles(table, S \ {r})

\* the statement of lines 193-196: delete the vectors of the role
delete_vectors(table, role_id) == table \ vectors_of(table, role_id)

\* the statement of lines 199-205: insert the new vector
insert_vector(table, role_id, responsibilities) ==
    table \cup {[id |-> new_vector_id(table), role_id |-> role_id,
                 responsibilities_text |-> responsibilities]}

\* where a request goes when _vectorize_responsibilities returns or raises:
\* the script catches and goes on with the next role, create_role and
\* update_role let the exception through
after_vectorize(p, outcome) ==
    IF proc[p].op = "script"
    THEN [proc[p] EXCEPT !.pc = "loop"]
    ELSE [IdleProc EXCEPT !.outcome = outcome]

RolesInit ==
    /\ roles = [r \in RoleIds |-> NoText]
    /\ role_vectors = {}
    /\ proc = [p \in Procs |-> IdleProc]
    /\ requests = 0

\* a new request arrives
start_request ==
    /\ requests < MaxRequests
    /\ requests' = requests + 1

\* create_role, lines 46-53: the roles row is inserted
CreateRole(p) ==
    /\ proc[p].pc = "idle"
    /\ start_request
    /\ \E r \in RoleIds, text \in Texts :
          /\ roles[r] = NoText
          /\ \A q \in RoleIds : roles[q] = NoText => r <= q
          /\ roles' = [roles EXCEPT ![r] = text]
          /\ proc' = [proc EXCEPT ![p] =
                        [pc |-> "embed", op |-> "create", role_id |-> r,
                         responsibilities |-> text, todo |-> <<>>,
                         outcome |-> None]]
    /\ UNCHANGED role_vectors
    /\ UNCHANGED <<retrievalVars, routingVars, ingestionVars, embeddingVars>>

\* create_role, lines 47-50: the insert fails, create_role raises
CreateRoleFails(p) ==
    /\ proc[p].pc = "idle"
    /\ start_request
    /\ proc' = [proc EXCEPT ![p] = [IdleProc EXCEPT !.outcome = "create failed"]]
    /\ UNCHANGED <<roles, role_vectors>>
    /\ UNCHANGED <<retrievalVars, routingVars, ingestionVars, embeddingVars>>

\* update_role, lines 120-142: the roles row is updated; text = NoText is an
\* update of other fields only
UpdateRole(p) ==
    /\ proc[p].pc = "idle"
    /\ start_request
    /\ \E r \in RoleIds, text \in Texts \cup {NoText} :
          /\ roles[r] # NoText
          /\ roles' = [roles EXCEPT ![r] = IF text = NoText THEN @ ELSE text]
          /\ proc' = [proc EXCEPT ![p] =
                        IF text = NoText
                        THEN [IdleProc EXCEPT !.outcome = "updated"]
                        ELSE [pc |-> "embed", op |-> "update", role_id |-> r,
                              responsibilities |-> text, todo |-> <<>>,
                              outcome |-> None]]
    /\ UNCHANGED role_vectors
    /\ UNCHANGED <<retrievalVars, routingVars, ingestionVars, embeddingVars>>

\* update_role, lines 131-132: no such role
UpdateRoleNotFound(p) ==
    /\ proc[p].pc = "idle"
    /\ start_request
    /\ \E r \in RoleIds : roles[r] = NoText
    /\ proc' = [proc EXCEPT ![p] = [IdleProc EXCEPT !.outcome = "not found"]]
    /\ UNCHANGED <<roles, role_vectors>>
    /\ UNCHANGED <<retrievalVars, routingVars, ingestionVars, embeddingVars>>

\* vectorize_existing_roles, lines 21-31: read the roles
VectorizeExistingRoles(p) ==
    /\ proc[p].pc = "idle"
    /\ start_request
    /\ proc' = [proc EXCEPT ![p] =
                  [pc |-> "loop", op |-> "script", role_id |-> NoRole,
                   responsibilities |-> NoText,
                   todo |-> list_roles(roles, {r \in RoleIds : roles[r] # NoText}),
                   outcome |-> None]]
    /\ UNCHANGED <<roles, role_vectors>>
    /\ UNCHANGED <<retrievalVars, routingVars, ingestionVars, embeddingVars>>

\* vectorize_existing_roles, line 34: the next role, or the end of the script
ScriptLoop(p) ==
    /\ proc[p].pc = "loop"
    /\ proc' = [proc EXCEPT ![p] =
                  IF proc[p].todo = <<>>
                  THEN [IdleProc EXCEPT !.outcome = "vectorized"]
                  ELSE [proc[p] EXCEPT
                           !.pc = "embed",
                           !.role_id = Head(proc[p].todo).role_id,
                           !.responsibilities = Head(proc[p].todo).responsibilities,
                           !.todo = Tail(proc[p].todo)]]
    /\ UNCHANGED <<roles, role_vectors, requests>>
    /\ UNCHANGED <<retrievalVars, routingVars, ingestionVars, embeddingVars>>

\* _vectorize_responsibilities, line 190: the embedding is computed
Embed(p) ==
    /\ proc[p].pc = "embed"
    /\ proc' = [proc EXCEPT ![p].pc = "delete"]
    /\ UNCHANGED <<roles, role_vectors, requests>>
    /\ UNCHANGED <<retrievalVars, routingVars, ingestionVars, embeddingVars>>

\* _vectorize_responsibilities, lines 193-196
DeleteVectors(p) ==
    /\ proc[p].pc = "delete"
    /\ role_vectors' = delete_vectors(role_vectors, proc[p].role_id)
    /\ proc' = [proc EXCEPT ![p].pc = "insert"]
    /\ UNCHANGED <<roles, requests>>
    /\ UNCHANGED <<retrievalVars, routingVars, ingestionVars, embeddingVars>>

\* _vectorize_responsibilities, lines 199-213
InsertVector(p) ==
    /\ proc[p].pc = "insert"
    /\ role_vectors' = insert_vector(role_vectors, proc[p].role_id,
                                     proc[p].responsibilities)
    /\ proc' = [proc EXCEPT ![p] = after_vectorize(p, "vectorized")]
    /\ UNCHANGED <<roles, requests>>
    /\ UNCHANGED <<retrievalVars, routingVars, ingestionVars, embeddingVars>>

\* _vectorize_responsibilities: the embedding service or the store raises
VectorizeRaises(p) ==
    /\ proc[p].pc \in {"embed", "delete", "insert"}
    /\ proc' = [proc EXCEPT ![p] = after_vectorize(p, "vectorize failed")]
    /\ UNCHANGED <<roles, role_vectors, requests>>
    /\ UNCHANGED <<retrievalVars, routingVars, ingestionVars, embeddingVars>>

----------------------------------------------------------------------------
(* MarkdownSplitter *)

MaxLines == 5
MaxDocLines == 4

\* line bodies: empty, running text, a table row, an image reference, and
\* two level-1 headings
BlankBody == ""
TextBody == "Weekly site report"
TableBody == "| crew | hours |"
\* stands for a table row of 200 characters
WideRowBody == "| crane inspection ... | 12 |"
\* stands for a paragraph of 450 characters
LongBody == "The crane on site B was inspected ..."
ImageBody == "![crane](crane.png)"
NoUrlImageBody == "![logo]()"
Headings == {"# Safety", "# Budget"}

\* a line: its text without leading whitespace, and whether it has any
Line(indent, body) == [indent |-> indent, body |-> body]
SectionLines == [indent : BOOLEAN,
                 body : {BlankBody, TextBody, TableBody, ImageBody}]
DocLines == [indent : {FALSE},
             body : {BlankBody, TextBody, TableBody, ImageBody} \cup Headings]

\* line.strip()
strip_line(line) == [line EXCEPT !.indent = FALSE]

\* re.match(image_pattern, line.strip()), line 126
is_image_line(line) == strip_line(line).body \in {ImageBody, NoUrlImageBody}

\* re.match(r'^\s*\|.*\|\s*$', line), line 141
is_table_line(line) == line.body \in {TableBody, WideRowBody}

\* the truth value of line.strip(), line 170
is_blank_line(line) == strip_line(line).body = BlankBody

\* text.strip() of the text '\n'.join(lines): blank lines at both ends go,
\* and so does the leading whitespace of the first line left
RECURSIVE strip_text(_)
strip_text(lines) ==
    IF lines = <<>> THEN <<>>
    ELSE IF is_blank_line(Head(lines)) THEN strip_text(Tail(lines))
    ELSE IF is_blank_line(lines[Len(lines)])
    THEN strip_text(SubSeq(lines, 1, Len(lines) - 1))
    ELSE <<strip_line(Head(lines))>> \o Tail(lines)

\* current_type or "text"
type_or_text(current_type) ==
    IF current_type = None THEN "text" ELSE current_type

\* the recurring block "if current_chunk: chunk_text = ...; if chunk_text:
\* chunks.append(...)" (lines 128-131, 146-149, 160-163, 173-176, 185-188)
save_chunk(chunks, current_chunk, type) ==
    IF current_chunk # <<>> /\ strip_text(current_chunk) # <<>>
    THEN Append(chunks, [content |-> strip_text(current_chunk), type |-> type])
    ELSE chunks

\* the state of the scan before the first line (lines 106, 117-119)
ScanStart == [chunks |-> <<>>, current_chunk |-> <<>>,
              current_type |-> None, in_table |-> FALSE]

\* variant: the open chunk is not saved before the image
scan_image_dropping_open_chunk(st, line) ==
    [chunks |-> Append(st.chunks,
                       [content |-> <<strip_line(line)>>, type |-> "image"]),
     current_chunk |-> <<>>,
     current_type |-> IF st.current_chunk # <<>> THEN None ELSE st.current_type,
     in_table |-> st.in_table]

\* lines 126-138: an image line
scan_image(st, line) ==
    [chunks |-> Append(save_chunk(st.chunks, st.current_chunk,
                                  type_or_text(st.current_type)),
                       [content |-> <<strip_line(line)>>, type |-> "image"]),
     current_chunk |-> <<>>,
     current_type |-> IF st.current_chunk # <<>> THEN None ELSE st.current_type,
     in_table |-> st.in_table]


\* lines 143-155: a table line
scan_table(st, line) ==
    IF ~st.in_table
    THEN [chunks |-> save_chunk(st.chunks, st.current_chunk,
                                type_or_text(st.current_type)),
          current_chunk |-> <<line>>,
          current_type |-> "table",
          in_table |-> TRUE]
    ELSE [st EXCEPT !.current_chunk = Append(@, line)]

\* lines 158-167: a line that is no table line ends the table that is open
end_table(st) ==
    IF st.in_table
    THEN [chunks |-> save_chunk(st.chunks, st.current_chunk, "table"),
          current_chunk |-> <<>>,
          current_type |-> "text",
          in_table |-> FALSE]
    ELSE st

\* lines 170-180: a non-blank line that is neither image nor table
scan_text(st, line) ==
    LET switched == IF st.current_type # "text"
                    THEN [st EXCEPT
                             !.chunks = save_chunk(st.chunks, st.current_chunk,
                                                   type_or_text(st.current_type)),
                             !.current_chunk = <<>>]
                    ELSE st
    IN  [switched EXCEPT !.current_type = "text",
                         !.current_chunk = Append(@, line)]

\* one iteration of the loop of lines 122-182
scan_line(st, line) ==
    IF is_image_line(line) THEN scan_image(st, line)
    ELSE IF is_table_line(line) THEN scan_table(st, line)
    ELSE IF is_blank_line(line) THEN end_table(st)
    ELSE scan_text(end_table(st), line)

\* the loop of lines 122-182 over the first n lines
RECURSIVE scan(_, _)
scan(lines, n) ==
    IF n = 0 THEN ScanStart ELSE scan_line(scan(lines, n - 1), lines[n])

\* variant: no unit is made up for a section whose scan found none
split_section_content_without_fallback(content) ==
    LET st == scan(content, Len(content))
    IN  save_chunk(st.chunks, st.current_chunk, type_or_text(st.current_type))

\* _split_section_content: the scan, the last chunk (lines 185-188), and one
\* text chunk with the whole content if there is no chunk (lines 191-192)
split_section_content(content) ==
    LET st == scan(content, Len(content))
        chunks == save_chunk(st.chunks, st.current_chunk,
                             type_or_text(st.current_type))
    IN  IF chunks = <<>>
        THEN <<[content |-> strip_text(content), type |-> "text"]>>
        ELSE chunks

\* the text of a level-1 heading line, None if the line is no heading
header_text(line) ==
    IF line.body = "# Safety" THEN "Safety"
    ELSE IF line.body = "# Budget" THEN "Budget"
    ELSE None

\* MarkdownHeaderTextSplitter(strip_headers=False).split_text for level-1
\* headings: every line is stripped, blank lines go, a heading starts a new
\* section unless the section before has the same heading, and the heading
\* line stays in the content of its section
RECURSIVE split_text(_, _)
split_text(doc, n) ==
    IF n = 0 THEN <<>>
    ELSE LET prev == split_text(doc, n - 1)
             line == strip_line(doc[n])
             last == prev[Len(prev)]
         IN  IF is_blank_line(line) THEN prev
             ELSE IF header_text(line) # None
                     /\ (prev = <<>> \/ last.metadata # header_text(line))
             THEN Append(prev, [page_content |-> <<line>>,
                                metadata |-> header_text(line)])
             ELSE IF prev = <<>>
             THEN <<[page_content |-> <<line>>, metadata |-> None]>>
             ELSE [prev EXCEPT ![Len(prev)].page_content = Append(@, line)]

\* _extract_section_header
extract_section_header(header_metadata) ==
    IF header_metadata = None THEN "No Header" ELSE header_metadata

\* base_metadata as process_pdf builds it
BaseMetadata == [source |-> "report.pdf", doc_id |-> 1]

\* lines 76-91: the parent node of sub_chunk, which gets index chunk_index
parent_node(sub_chunk, chunk_index, section_header) ==
    [content |-> sub_chunk.content,
     metadata |-> [source |-> BaseMetadata.source,
                   doc_id |-> BaseMetadata.doc_id,
                   chunk_index |-> chunk_index,
                   section_header |-> section_header,
                   type |-> sub_chunk.type],
     type |-> sub_chunk.type]

\* variant: chunk_index starts again at 0 in every section
RECURSIVE section_nodes_restarting(_, _)
section_nodes_restarting(splits, n) ==
    IF n = 0 THEN <<>>
    ELSE LET prev == section_nodes_restarting(splits, n - 1)
             chunks == split_section_content(splits[n].page_content)
         IN  prev \o [i \in DOMAIN chunks |->
                         parent_node(chunks[i], i - 1,
                                     extract_section_header(splits[n].metadata))]

\* lines 68-91: the parent nodes of the first n sections
RECURSIVE section_nodes(_, _)
section_nodes(splits, n) ==
    IF n = 0 THEN <<>>
    ELSE LET prev == section_nodes(splits, n - 1)
             chunks == split_section_content(splits[n].page_content)
         IN  prev \o [i \in DOMAIN chunks |->
                         parent_node(chunks[i], Len(prev) + i - 1,
                                     extract_section_header(splits[n].metadata))]

\* split_markdown
split_markdown(markdown_content) ==
    LET splits == split_text(markdown_content, Len(markdown_content))
    IN  section_nodes(splits, Len(splits))

----------------------------------------------------------------------------
(* TextChunker *)

MaxChunks == 3

MinChunkLength == 50
TextChunkSize == 400

\* len(body): the number of characters of a line body
body_chars(body) ==
    IF body = BlankBody THEN 0
    ELSE IF body = TextBody THEN 18
    ELSE IF body = TableBody THEN 16
    ELSE IF body = WideRowBody THEN 200
    ELSE IF body = LongBody THEN 450
    ELSE IF body = ImageBody THEN 19
    ELSE IF body = NoUrlImageBody THEN 9
    ELSE 8

\* len(line): leading whitespace is two blanks
line_chars(line) == body_chars(line.body) + (IF line.indent THEN 2 ELSE 0)

\* len('\n'.join(lines))
RECURSIVE text_chars(_)
text_chars(lines) ==
    IF lines = <<>> THEN 0
    ELSE IF Len(lines) = 1 THEN line_chars(lines[1])
    ELSE line_chars(Head(lines)) + 1 + text_chars(Tail(lines))

\* how many chunks RecursiveCharacterTextSplitter.split_text may return for
\* a text of that many characters: one if it fits chunk_size, more if not
split_counts(chars) ==
    IF chars <= TextChunkSize THEN {1} ELSE 2..MaxChunks

\* chunk idx of the text as the splitter returns it; part 0 is the whole text
chunk_of(text_content, idx) == [text |-> text_content, part |-> idx]

\* parent_metadata extended as in lines 65-69
child_metadata(parent_metadata, idx, total) ==
    [source |-> parent_metadata.source,
     doc_id |-> parent_metadata.doc_id,
     chunk_index |-> parent_metadata.chunk_index,
     section_header |-> parent_metadata.section_header,
     type |-> parent_metadata.type,
     child_chunk_index |-> idx,
     total_child_chunks |-> total]

\* chunk_text, where the splitter returns count chunks
chunk_text(text_content, parent_metadata, count) ==
    IF text_chars(strip_text(text_content)) < MinChunkLength
    THEN <<[content |-> chunk_of(strip_text(text_content), 0),
            metadata |-> parent_metadata]>>
    ELSE [i \in 1..count |->
             [content |-> chunk_of(text_content, i),
              metadata |-> child_metadata(parent_metadata, i - 1, count)]]

----------------------------------------------------------------------------
(* Direct calls of the splitter and of the chunker *)

\* the lines of the texts given to chunk_text
ChunkLines == [indent : BOOLEAN, body : {BlankBody, TextBody, LongBody}]

\* the metadata of a text parent node
ParentMetadata ==
    {parent_node([content |-> <<>>, type |-> "text"], i, h).metadata :
        i \in 0..1, h \in {"Safety", "No Header"}}

NoSplitCall == [op |-> None, content |-> <<>>, count |-> 0]

SplitInit ==
    /\ pc_split = "idle"
    /\ split_call = NoSplitCall
    /\ sub_chunks = <<>>
    /\ parent_nodes = <<>>
    /\ child_nodes = <<>>

\* a call of _split_section_content
SplitSectionContent ==
    /\ pc_split = "idle"
    /\ \E content \in SeqsUpTo(SectionLines, MaxLines) :
          /\ split_call' = [op |-> "section", content |-> content, count |-> 0]
          /\ sub_chunks' = split_section_content(content)
    /\ pc_split' = "returned"
    /\ UNCHANGED <<parent_nodes, child_nodes>>
    /\ UNCHANGED <<retrievalVars, routingVars, rolesVars, pipelineVars, embeddingVars>>

\* a call of split_markdown
SplitMarkdown ==
    /\ pc_split = "idle"
    /\ \E markdown_content \in SeqsUpTo(DocLines, MaxDocLines) :
          /\ split_call' = [op |-> "markdown", content |-> markdown_content,
                            count |-> 0]
          /\ parent_nodes' = split_markdown(markdown_content)
    /\ pc_split' = "returned"
    /\ UNCHANGED <<sub_chunks, child_nodes>>
    /\ UNCHANGED <<retrievalVars, routingVars, rolesVars, pipelineVars, embeddingVars>>

\* a call of chunk_text; parent_nodes holds the parent whose text is chunked
ChunkText ==
    /\ pc_split = "idle"
    /\ \E text_content \in SeqsUpTo(ChunkLines, MaxDocLines),
          parent_metadata \in ParentMetadata :
          \E count \in split_counts(text_chars(text_content)) :
              /\ split_call' = [op |-> "chunk", content |-> text_content,
                                count |-> count]
              /\ parent_nodes' = <<[content |-> text_content,
                                    metadata |-> parent_metadata,
                                    type |-> "text"]>>
              /\ child_nodes' = chunk_text(text_content, parent_metadata, count)
    /\ pc_split' = "returned"
    /\ UNCHANGED sub_chunks
    /\ UNCHANGED <<retrievalVars, routingVars, rolesVars, pipelineVars, embeddingVars>>

\* the caller has consumed the return value
SplitReturn ==
    /\ pc_split = "returned"
    /\ pc_split' = "idle"
    /\ split_call' = NoSplitCall
    /\ sub_chunks' = <<>>
    /\ parent_nodes' = <<>>
    /\ child_nodes' = <<>>
    /\ UNCHANGED <<retrievalVars, routingVars, rolesVars, pipelineVars, embeddingVars>>

----------------------------------------------------------------------------
(* MultimodalHandler *)

TableFallbackChars == 200

\* what llm.invoke does in the summarizer
LlmResults == {"ok", "failed"}

\* content[:limit]: the lines that fit whole, and how many characters of the
\* line after them
RECURSIVE truncate(_, _)
truncate(lines, limit) ==
    IF lines = <<>> \/ limit <= 0 THEN [whole |-> <<>>, rest |-> 0]
    ELSE IF line_chars(Head(lines)) > limit
    THEN [whole |-> <<>>, rest |-> limit]
    ELSE LET tail == truncate(Tail(lines), limit - line_chars(Head(lines)) - 1)
         IN  [whole |-> <<Head(lines)>> \o tail.whole, rest |-> tail.rest]

\* a text the generator wrote
generated(kind) ==
    [by |-> "generator", kind |-> kind, source |-> None, page |-> None,
     section |-> None, content |-> truncate(<<>>, 0)]

\* the string of line 72
table_fallback(table_markdown, metadata) ==
    [by |-> "fallback", kind |-> "table", source |-> metadata.source,
     page |-> None, section |-> None,
     content |-> truncate(table_markdown, TableFallbackChars)]

\* the string of lines 139-143; the metadata has no page_num
image_fallback(metadata) ==
    [by |-> "fallback", kind |-> "image", source |-> metadata.source,
     page |-> "N/A", section |-> metadata.section_header,
     content |-> truncate(<<>>, 0)]

\* variant: no try around llm.invoke, the generator's exception leaves
\* summarize_table
summarize_table_reraising(table_markdown, metadata, llm) ==
    IF llm = "ok" THEN [raised |-> FALSE, text |-> generated("table")]
    ELSE [raised |-> TRUE, text |-> generated("table")]

\* summarize_table: the text returned, or raised if an exception leaves it
summarize_table(table_markdown, metadata, llm) ==
    IF llm = "ok" THEN [raised |-> FALSE, text |-> generated("table")]
    ELSE [raised |-> FALSE, text |-> table_fallback(table_markdown, metadata)]

\* generate_image_caption
generate_image_caption(image_url, metadata, llm) ==
    IF llm = "ok" THEN [raised |-> FALSE, text |-> generated("image")]
    ELSE [raised |-> FALSE, text |-> image_fallback(metadata)]

----------------------------------------------------------------------------
(* IngestionPipeline and the store *)

MaxBlocks == 3

\* the blocks of a document and their lines
BlockKinds == {"paragraph", "long paragraph", "table", "image", "broken image"}
block_lines(kind) ==
    IF kind = "paragraph" THEN <<Line(FALSE, TextBody)>>
    ELSE IF kind = "long paragraph" THEN <<Line(FALSE, LongBody)>>
    ELSE IF kind = "table"
    THEN <<Line(FALSE, TableBody), Line(FALSE, WideRowBody)>>
    ELSE IF kind = "image" THEN <<Line(FALSE, ImageBody)>>
    ELSE <<Line(FALSE, NoUrlImageBody)>>

\* documents: a heading or none, then blocks of different kinds
Documents ==
    [heading : BOOLEAN,
     blocks : {b \in SeqsUpTo(BlockKinds, MaxBlocks) :
                  \A i, j \in DOMAIN b : i # j => b[i] # b[j]}]

\* the markdown Docling exports for a document: blocks after a blank line
RECURSIVE blocks_markdown(_, _)
blocks_markdown(blocks, n) ==
    IF n = 0 THEN <<>>
    ELSE blocks_markdown(blocks, n - 1)
         \o <<Line(FALSE, BlankBody)>> \o block_lines(blocks[n])
markdown_of(doc) ==
    (IF doc.heading THEN <<Line(FALSE, "# Safety")>> ELSE <<>>)
    \o blocks_markdown(doc.blocks, Len(doc.blocks))

\* _extract_image_url
extract_image_url(content) ==
    IF content[1].body = ImageBody THEN "crane.png" ELSE ""

NoStats == [parent_nodes |-> 0, child_vectors |-> 0, tables_processed |-> 0,
            text_sections |-> 0]
NoIngest == [doc |-> [heading |-> FALSE, blocks |-> <<>>], nodes |-> <<>>,
             i |-> 0, parent_id |-> 0, pending |-> <<>>, stats |-> NoStats,
             log |-> <<>>]

PipelineInit ==
    /\ parent_docs = {}
    /\ child_vectors = {}
    /\ issued = 0
    /\ pc_ingest = "idle"
    /\ ingest = NoIngest
    /\ pc_purge = "idle"

\* the node of the loop of line 105 that is being processed
current_node == ingest.nodes[ingest.i]

\* where ingest_document is after the unit that ended with this outcome and
\* these statistics: an exception is caught at line 108 and the loop goes on
\* with the next node; after the last one the statistics are returned
after_unit(loc, generator, outcome) ==
    [loc EXCEPT !.i = @ + 1, !.parent_id = 0, !.pending = <<>>,
                !.log = Append(@, [node |-> loc.i, parent_id |-> loc.parent_id,
                                   generator |-> generator,
                                   outcome |-> outcome])]
pc_after_unit == IF ingest.i < Len(ingest.nodes) THEN "insert_parent"
                 ELSE "returned"

\* variant: no try around _process_parent_node, the exception leaves
\* ingest_document
pc_after_raise_propagating == "raised"

\* lines 108-110: the exception of a unit is caught and logged, and the loop
\* continues
pc_after_raise == pc_after_unit

\* ingest_document, lines 56-102: the document is converted and split
ConvertAndSplit ==
    /\ pc_ingest = "idle"
    /\ \E doc \in Documents :
          LET nodes == split_markdown(markdown_of(doc))
          IN  /\ ingest' = [NoIngest EXCEPT !.doc = doc, !.nodes = nodes, !.i = 1]
              /\ pc_ingest' = IF nodes = <<>> THEN "returned" ELSE "insert_parent"
    /\ UNCHANGED <<parent_docs, child_vectors, issued, pc_purge>>
    /\ UNCHANGED <<retrievalVars, routingVars, rolesVars, splitVars, embeddingVars>>

\* the children _process_parent_node goes on to make once the parent is
\* stored: the chunks of a text, one summary of a table, one caption of an
\* image that has a URL
children_to_make(node, count) ==
    IF node.type = "text" THEN chunk_text(node.content, node.metadata, count)
    ELSE IF node.type = "image" /\ extract_image_url(node.content) = "" THEN <<>>
    ELSE <<[content |-> chunk_of(node.content, 0), metadata |-> node.metadata]>>

\* _process_parent_node, lines 138-143: insert_parent_doc succeeds
InsertParentDoc ==
    /\ pc_ingest = "insert_parent"
    /\ issued' = issued + 1
    /\ parent_docs' = parent_docs \cup
                         {[id |-> issued + 1, content |-> current_node.content,
                           metadata |-> current_node.metadata]}
    /\ \E count \in split_counts(text_chars(current_node.content)) :
          LET pending == children_to_make(current_node, count)
              stored == [ingest EXCEPT !.stats.parent_nodes = @ + 1,
                                       !.parent_id = issued + 1,
                                       !.pending = pending]
          IN  IF pending = <<>>
              THEN /\ ingest' = after_unit(stored, "unused", "no url")
                   /\ pc_ingest' = pc_after_unit
              ELSE /\ ingest' = stored
                   /\ pc_ingest' = "insert_child"
    /\ UNCHANGED <<child_vectors, pc_purge>>
    /\ UNCHANGED <<retrievalVars, routingVars, rolesVars, splitVars, embeddingVars>>

\* _process_parent_node, line 138: insert_parent_doc raises
InsertParentRaises ==
    /\ pc_ingest = "insert_parent"
    /\ ingest' = after_unit(ingest, "unused", "parent failed")
    /\ pc_ingest' = pc_after_raise
    /\ UNCHANGED <<parent_docs, child_vectors, issued, pc_purge>>
    /\ UNCHANGED <<retrievalVars, routingVars, rolesVars, splitVars, embeddingVars>>

\* the text of the next child: a chunk as it is, the summary of a table, the
\* caption of an image (lines 169, 191, 224)
child_text(node, item, llm) ==
    IF node.type = "table"
    THEN summarize_table(node.content, node.metadata, llm)
    ELSE IF node.type = "image"
    THEN generate_image_caption(extract_image_url(node.content),
                                node.metadata, llm)
    ELSE [raised |-> FALSE, text |-> item.content]

\* the generator outcomes a unit of that type can see
generator_results(node) ==
    IF node.type = "text" THEN {"unused"} ELSE LlmResults

\* the statistics after every child of the unit is stored (lines 179, 205)
unit_done(stats, node) ==
    IF node.type = "text" THEN [stats EXCEPT !.text_sections = @ + 1]
    ELSE IF node.type = "table" THEN [stats EXCEPT !.tables_processed = @ + 1]
    ELSE stats

\* _process_text_node, _process_table_node, _process_image_node: the next
\* child is summarized, embedded and stored
InsertChildVector ==
    /\ pc_ingest = "insert_child"
    /\ \E llm \in generator_results(current_node) :
          LET item == Head(ingest.pending)
              made == child_text(current_node, item, llm)
              counted == [ingest EXCEPT !.stats.child_vectors = @ + 1,
                                        !.pending = Tail(@)]
          IN  IF made.raised
              THEN /\ ingest' = after_unit(ingest, llm, "summarizer raised")
                   /\ pc_ingest' = pc_after_raise
                   /\ UNCHANGED <<child_vectors, issued>>
              ELSE /\ issued' = issued + 1
                   /\ child_vectors' = child_vectors \cup
                         {[id |-> issued + 1, parent_id |-> ingest.parent_id,
                           content |-> made.text, metadata |-> item.metadata]}
                   /\ IF Tail(ingest.pending) = <<>>
                      THEN /\ ingest' = after_unit(
                                 [counted EXCEPT
                                     !.stats = unit_done(@, current_node)],
                                 llm, "stored")
                           /\ pc_ingest' = pc_after_unit
                      ELSE /\ ingest' = counted
                           /\ pc_ingest' = "insert_child"
    /\ UNCHANGED <<parent_docs, pc_purge>>
    /\ UNCHANGED <<retrievalVars, routingVars, rolesVars, splitVars, embeddingVars>>

\* embed_text or insert_child_vector raises for the next child
ChildRaises ==
    /\ pc_ingest = "insert_child"
    /\ \E llm \in generator_results(current_node) :
          /\ ~child_text(current_node, Head(ingest.pending), llm).raised
          /\ ingest' = after_unit(ingest, llm, "child failed")
    /\ pc_ingest' = pc_after_raise
    /\ UNCHANGED <<parent_docs, child_vectors, issued, pc_purge>>
    /\ UNCHANGED <<retrievalVars, routingVars, rolesVars, splitVars, embeddingVars>>

\* delete_all_data, line 210
PurgeChildVectors ==
    /\ pc_purge = "idle"
    /\ child_vectors' = {}
    /\ pc_purge' = "parents"
    /\ UNCHANGED <<parent_docs, issued, pc_ingest, ingest>>
    /\ UNCHANGED <<retrievalVars, routingVars, rolesVars, splitVars, embeddingVars>>

\* delete_all_data, line 211
PurgeParentDocs ==
    /\ pc_purge = "parents"
    /\ parent_docs' = {}
    /\ pc_purge' = "done"
    /\ UNCHANGED <<child_vectors, issued, pc_ingest, ingest>>
    /\ UNCHANGED <<retrievalVars, routingVars, rolesVars, splitVars, embeddingVars>>

----------------------------------------------------------------------------
(* HybridRetriever over the store that ingestion fills *)

\* the rows of S by id, lowest first
RECURSIVE rows_by_id(_)
rows_by_id(S) ==
    IF S = {} THEN <<>>
    ELSE LET r == CHOOSE x \in S : \A y \in S : x.id <= y.id
         IN  <<r>> \o rows_by_id(S \ {r})

\* the candidate that match_vectors returns for a child_vectors row
candidate(row, similarity) ==
    [parent_id |-> row.parent_id, similarity |-> similarity]

\* _vector_search (lines 77-119): the rpc match_vectors returns the top_k * 2
\* most similar rows of child_vectors, best first. The question is closest
\* to row best; the other rows score lower and alike.
vector_search(table, best, top_k) ==
    LET rest == rows_by_id(table \ {best})
        ranked == <<candidate(best, 80)>>
                      \o [i \in DOMAIN rest |-> candidate(rest[i], 45)]
    IN  SubSeq(ranked, 1, Min(top_k * 2, Len(ranked)))

\* HybridRetriever.search after an ingestion has returned. The parent rows
\* are read from table "parent_documents" (line 141); insert_parent_doc
\* writes table "parent_docs" (supabase_client.py line 58).
SearchStore ==
    /\ pc_query = "idle"
    /\ pc_ingest = "returned"
    /\ \E best \in child_vectors, top_k \in TopKs :
          LET child_matches == vector_search(child_vectors, best, top_k)
          IN  /\ call' = [NoCall EXCEPT !.op = "store_search",
                                        !.child_matches = child_matches,
                                        !.top_k = top_k]
              /\ results' = search(child_matches, top_k, parent_documents, {})
    /\ pc_query' = "returned"
    /\ UNCHANGED <<parent_documents, response, llm_invocations>>
    /\ UNCHANGED <<routingVars, rolesVars, ingestionVars, embeddingVars>>

----------------------------------------------------------------------------
(* EmbeddingModel *)

MaxTexts == 3

EmbeddingDim == 384

\* the texts given to the embedding model: the empty text, a text of spaces
\* only, and texts with content
EmbedTexts == {"", "   ", TextBody, TableBody, ImageBody}

\* t.strip()
strip_string(t) == IF t = "   " THEN "" ELSE t

\* t and t.strip(): the text is kept by the filter
is_valid_text(t) == t # "" /\ strip_string(t) # ""

\* [0.0] * settings.EMBEDDING_DIM
ZeroVector == [dim |-> EmbeddingDim, zero |-> TRUE, text |-> ""]

\* the vector the HuggingFace model computes for one text
model_embed(t) == [dim |-> EmbeddingDim, zero |-> FALSE, text |-> t]

\* self.model.embed_documents: one vector per text it is given, in order
model_embed_documents(texts) == [i \in DOMAIN texts |-> model_embed(texts[i])]

embed_text(t) ==
    IF ~is_valid_text(t) THEN ZeroVector ELSE model_embed(t)

embed_documents(texts) ==
    IF texts = <<>> THEN <<>>
    ELSE LET valid_texts == SelectSeq(texts, is_valid_text)
         IN  IF valid_texts = <<>>
             THEN [i \in DOMAIN texts |-> ZeroVector]
             ELSE model_embed_documents(valid_texts)

NoEmbedCall == [op |-> None, texts |-> <<>>]

EmbeddingInit ==
    /\ pc_embed = "idle"
    /\ embed_call = NoEmbedCall
    /\ embeddings = <<>>

\* a call of embed_text; the vector is returned as a list of one
EmbedText ==
    /\ pc_embed = "idle"
    /\ \E t \in EmbedTexts :
          /\ embed_call' = [op |-> "text", texts |-> <<t>>]
          /\ embeddings' = <<embed_text(t)>>
    /\ pc_embed' = "returned"
    /\ UNCHANGED <<retrievalVars, routingVars, rolesVars, ingestionVars>>

\* a call of embed_documents
EmbedDocuments ==
    /\ pc_embed = "idle"
    /\ \E texts \in SeqsUpTo(EmbedTexts, MaxTexts) :
          /\ embed_call' = [op |-> "documents", texts |-> texts]
          /\ embeddings' = embed_documents(texts)
    /\ pc_embed' = "returned"
    /\ UNCHANGED <<retrievalVars, routingVars, rolesVars, ingestionVars>>

\* the caller has consumed the return value
EmbedReturn ==
    /\ pc_embed = "returned"
    /\ pc_embed' = "idle"
    /\ embed_call' = NoEmbedCall
    /\ embeddings' = <<>>
    /\ UNCHANGED <<retrievalVars, routingVars, rolesVars, ingestionVars>>

----------------------------------------------------------------------------
(* Specifications *)

\* a store that holds every parent a candidate can name
RetrievalFull ==
    /\ parent_documents = ParentIds
    /\ pc_query = "idle"
    /\ call = NoCall
    /\ results = <<>>
    /\ response = NoResponse
    /\ llm_invocations = 0

RetrievalIdle ==
    /\ parent_documents = {}
    /\ pc_query = "idle"
    /\ call = NoCall
    /\ results = <<>>
    /\ response = NoResponse
    /\ llm_invocations = 0

NextRetrieval ==
    \/ Search
    \/ Query
    \/ QueryReturn

NextApi ==
    \/ QuerySystem
    \/ QueryReturn

NextRoute ==
    \/ RouteDocument
    \/ CalculateConfidence
    \/ RouteReturn

NextIngest ==
    \/ IngestDocument
    \/ RouteReturn

NextRoles ==
    \E p \in Procs :
        \/ CreateRole(p)
        \/ CreateRoleFails(p)
        \/ UpdateRole(p)
        \/ UpdateRoleNotFound(p)
        \/ VectorizeExistingRoles(p)
        \/ ScriptLoop(p)
        \/ Embed(p)
        \/ DeleteVectors(p)
        \/ InsertVector(p)
        \/ VectorizeRaises(p)

NextSplit ==
    \/ SplitSectionContent
    \/ SplitMarkdown
    \/ SplitReturn

NextChunk ==
    \/ ChunkText
    \/ SplitReturn

NextPipeline ==
    \/ ConvertAndSplit
    \/ InsertParentDoc
    \/ InsertParentRaises
    \/ InsertChildVector
    \/ ChildRaises

NextStore ==
    \/ ConvertAndSplit
    \/ InsertParentDoc
    \/ InsertParentRaises
    \/ InsertChildVector
    \/ ChildRaises
    \/ PurgeChildVectors
    \/ PurgeParentDocs

NextStoreSearch ==
    \/ ConvertAndSplit
    \/ InsertParentDoc
    \/ InsertParentRaises
    \/ InsertChildVector
    \/ ChildRaises
    \/ SearchStore

NextEmbed ==
    \/ EmbedText
    \/ EmbedDocuments
    \/ EmbedReturn

IngestionIdle == SplitInit /\ PipelineInit

InitRetrieval == RetrievalInit /\ RoutingInit /\ RolesInit /\ IngestionIdle /\ EmbeddingInit
InitApi == RetrievalFull /\ RoutingInit /\ RolesInit /\ IngestionIdle /\ EmbeddingInit
InitRoute == RetrievalIdle /\ RoutingInit /\ RolesInit /\ IngestionIdle /\ EmbeddingInit
InitIngest == RetrievalIdle /\ RoutingInit /\ RolesInit /\ IngestionIdle /\ EmbeddingInit
InitRoles == RetrievalIdle /\ RoutingInit /\ RolesInit /\ IngestionIdle /\ EmbeddingInit
InitSplit == RetrievalIdle /\ RoutingInit /\ RolesInit /\ IngestionIdle /\ EmbeddingInit
InitChunk == RetrievalIdle /\ RoutingInit /\ RolesInit /\ IngestionIdle /\ EmbeddingInit
InitPipeline == RetrievalIdle /\ RoutingInit /\ RolesInit /\ IngestionIdle /\ EmbeddingInit
InitStore == RetrievalIdle /\ RoutingInit /\ RolesInit /\ IngestionIdle /\ EmbeddingInit
InitStoreSearch == RetrievalIdle /\ RoutingInit /\ RolesInit /\ IngestionIdle /\ EmbeddingInit
InitEmbed == RetrievalIdle /\ RoutingInit /\ RolesInit /\ IngestionIdle /\ EmbeddingInit

SpecRetrieval == InitRetrieval /\ [][NextRetrieval]_vars
SpecApi == InitApi /\ [][NextApi]_vars
SpecRoute == InitRoute /\ [][NextRoute]_vars
SpecIngest == InitIngest /\ [][NextIngest]_vars
SpecRoles == InitRoles /\ [][NextRoles]_vars
SpecSplit == InitSplit /\ [][NextSplit]_vars
SpecChunk == InitChunk /\ [][NextChunk]_vars
SpecPipeline == InitPipeline /\ [][NextPipeline]_vars
SpecPipelineLive == SpecPipeline /\ WF_vars(NextPipeline)
SpecStore == InitStore /\ [][NextStore]_vars
SpecStoreSearch == InitStoreSearch /\ [][NextStoreSearch]_vars
SpecEmbed == InitEmbed /\ [][NextEmbed]_vars

----------------------------------------------------------------------------
(* Properties of the retriever and of the synthesizer (SpecRetrieval) *)

\* positions of the candidates of the last call whose parent row was found
Fetched == {i \in DOMAIN call.child_matches :
               /\ call.child_matches[i].parent_id \in parent_documents
               /\ i \notin call.raising}
FetchedParents == {call.child_matches[i].parent_id : i \in Fetched}
\* the highest similarity among the fetched fragments of parent p
BestSimilarity(p) ==
    CHOOSE s \in Similarities :
        /\ \E i \in Fetched : /\ call.child_matches[i].parent_id = p
                              /\ call.child_matches[i].similarity = s
        /\ \A i \in Fetched : call.child_matches[i].parent_id = p
                                 => call.child_matches[i].similarity <= s
ResultParents == {results[i].parent_id : i \in DOMAIN results}
Returned == pc_query = "returned"

\* C1: no two results of one search call have the same parent_id
C1_DistinctParents ==
    \A i, j \in DOMAIN results :
        i # j => results[i].parent_id # results[j].parent_id

\* C1 witness: a parent matched through two fragments and was returned,
\* together with another parent
C1_Witness ==
    /\ Returned
    /\ Len(results) >= 2
    /\ \E i, j \in Fetched :
          /\ i # j
          /\ call.child_matches[i].parent_id = call.child_matches[j].parent_id

\* C2: search returns at most top_k results, in non-increasing similarity
\* order, and they are the top_k prefix of the deduplicated parents: as many
\* as top_k allows, none scoring below a parent that was cut off
C2_TopKPrefix ==
    Returned =>
        /\ Len(results) = Min(call.top_k, Cardinality(FetchedParents))
        /\ Len(results) <= call.top_k
        /\ \A i, j \in DOMAIN results :
              i < j => results[i].similarity_score >= results[j].similarity_score
        /\ ResultParents \subseteq FetchedParents
        /\ \A p \in FetchedParents \ ResultParents :
              \A i \in DOMAIN results :
                  results[i].similarity_score >= BestSimilarity(p)

\* C2 witness: the truncation cut a lower-scoring parent off
C2_Witness ==
    /\ Returned
    /\ Len(results) = call.top_k
    /\ \E p \in FetchedParents \ ResultParents :
          \E i \in DOMAIN results :
              results[i].similarity_score > BestSimilarity(p)

\* C3: the similarity_score of each returned parent is the maximum similarity
\* among the fetched fragments of that parent
C3_BestFragment ==
    Returned =>
        \A i \in DOMAIN results :
            /\ results[i].parent_id \in FetchedParents
            /\ results[i].similarity_score = BestSimilarity(results[i].parent_id)

\* C3 witness: a returned parent matched through a weaker fragment first and
\* a stronger one later
C3_Witness ==
    /\ Returned
    /\ \E i, j \in Fetched :
          /\ i < j
          /\ call.child_matches[i].parent_id = call.child_matches[j].parent_id
          /\ call.child_matches[i].similarity < call.child_matches[j].similarity
          /\ call.child_matches[i].parent_id \in ResultParents

\* C4: a query whose retrieval yields no result returns the fixed answer with
\* no sources and no chunks, and never calls the generator
C4_EmptyShortCircuit ==
    (Returned /\ call.op = "query" /\ results = <<>>) =>
        /\ response.answer = NoInfoAnswer
        /\ response.sources = <<>>
        /\ response.retrieved_chunks = <<>>
        /\ llm_invocations = 0

\* C4 witness: candidates were found but every one was dropped
C4_Witness ==
    /\ Returned
    /\ call.op = "query"
    /\ call.child_matches # <<>>
    /\ results = <<>>
    /\ response.answer = NoInfoAnswer

\* C5: when the generator fails and retrieval found n >= 1 results, query
\* returns a non-empty answer describing the failure and exactly n sources,
\* one per result in rank order
C5_GeneratorFailureKeepsSources ==
    (Returned /\ call.op = "query" /\ ~call.llm.ok /\ Len(results) >= 1) =>
        /\ response.answer # ""
        /\ response.answer = ErrorPrefix \o call.llm.text
        /\ llm_invocations = 1
        /\ Len(response.sources) = Len(results)
        /\ response.retrieved_chunks = results
        /\ \A i \in DOMAIN results :
              /\ response.sources[i].source_number = i
              /\ response.sources[i].parent_id = results[i].parent_id
              /\ response.sources[i].similarity_score = results[i].similarity_score

\* C5 witness: the generator raised with an empty message after two results
\* were retrieved
C5_Witness ==
    /\ Returned
    /\ call.op = "query"
    /\ ~call.llm.ok
    /\ call.llm.text = ""
    /\ Len(results) = 2
    /\ Len(response.sources) = 2

----------------------------------------------------------------------------
(* Properties of the role router (SpecRoute, SpecIngest) *)

RouteReturned == pc_route = "returned" /\ route_call.op = "route"
IngestReturned == pc_route = "returned" /\ route_call.op = "ingest"

\* C6: when the role search returns no role, route_document falls back to
\* the manager role (fallback_used, best_match = manager at 0.5, medium) if
\* there is one, and returns best_match = null if there is none; when a role
\* clears the threshold, fallback_used is false and best_match is the top match
C6_RoutingFallback ==
    RouteReturned =>
        IF route_call.data = <<>>
        THEN IF route_call.manager # NoRole
             THEN /\ routing.fallback_used = TRUE
                  /\ routing.best_match # NoMatch
                  /\ routing.best_match = [role_id |-> route_call.manager,
                                           similarity |-> 50,
                                           confidence |-> "medium"]
             ELSE routing.best_match = NoMatch
        ELSE /\ routing.fallback_used = FALSE
             /\ routing.best_match = routing.matches[1]
             /\ routing.best_match.role_id = route_call.data[1].role_id
             /\ routing.best_match.similarity = route_call.data[1].similarity

\* C6 witness: no role cleared the threshold and the manager role was used
C6_Witness ==
    /\ RouteReturned
    /\ route_call.data = <<>>
    /\ route_call.manager # NoRole
    /\ routing.fallback_used

\* the assignments of the document of the last ingestion
LastDocRows == {a \in role_documents : a.document_id = route_call.doc_id}
\* the row that assigns match m of the last ingestion
IsRowOf(a, m, primary) ==
    /\ a.role_id = m.role_id
    /\ a.confidence = m.similarity
    /\ a.primary_assignment = primary
\* m2 satisfies the closeness rule against m1
CloseRule(m1, m2) ==
    /\ m1.similarity - m2.similarity < 10
    /\ m2.similarity > 50

C9_ConfidenceTiers ==
    (pc_route = "returned" /\ confidence_call.similarity >= 0) =>
        LET sim == confidence_call.similarity
            tier == confidence_call.confidence
        IN  /\ tier \in {"high", "medium", "low"}
            /\ tier = "high" <=> sim >= 80
            /\ tier = "medium" <=> (sim >= 65 /\ sim < 80)
            /\ tier = "low" <=> sim < 65

\* C9 witness: the boundary value 0.8 falls in the upper tier
C9_Witness ==
    /\ pc_route = "returned"
    /\ confidence_call.similarity = 80
    /\ confidence_call.confidence = "high"

----------------------------------------------------------------------------
(* Properties of the role vectors (SpecRoles) *)

\* C10: in every reachable state each role has at most one record in
\* role_vectors
C10_AtMostOneVector ==
    \A r \in RoleIds : Cardinality(vectors_of(role_vectors, r)) <= 1

\* C11: no role_vectors row that route_document can match was embedded from
\* a text other than the current responsibilities of its role, in any state:
\* between the steps of update_role, after it returns, after it raises
C11_NoStaleVector ==
    \A v \in role_vectors : v.responsibilities_text = roles[v.role_id]

\* C12: a role that has a vector never loses it without getting the new one
\* in the same step: no state a racing route_document can read shows a
\* vectorized role with neither its old nor its new vector
C12_OldOrNewVector ==
    [][\A r \in RoleIds :
          vectors_of(role_vectors, r) # {} => vectors_of(role_vectors', r) # {}]_vars

----------------------------------------------------------------------------
(* Properties of the splitter (SpecSplit) *)

SectionReturned == pc_split = "returned" /\ split_call.op = "section"
MarkdownReturned == pc_split = "returned" /\ split_call.op = "markdown"

\* the lines of the first n units, in output order
RECURSIVE unit_lines(_, _)
unit_lines(units, n) ==
    IF n = 0 THEN <<>> ELSE unit_lines(units, n - 1) \o units[n].content
\* lines without their leading whitespace
trimmed(lines) == [i \in DOMAIN lines |-> strip_line(lines[i])]
\* the lines that are not blank
non_blank(lines) == SelectSeq(lines, LAMBDA l : strip_line(l).body # BlankBody)

\* C17: the lines of the units of a section, read in output order, are the
\* non-blank lines of the section in their order, up to whitespace trimming:
\* every content line is in exactly one unit
C17_Coverage ==
    SectionReturned =>
        trimmed(unit_lines(sub_chunks, Len(sub_chunks)))
            = trimmed(non_blank(split_call.content))

\* C17 witness: a section of text, a table and an image with a blank and an
\* indented line, split into three units or more
C17_Witness ==
    /\ SectionReturned
    /\ Len(sub_chunks) >= 3
    /\ {sub_chunks[i].type : i \in DOMAIN sub_chunks} = {"text", "table", "image"}
    /\ \E i, j \in DOMAIN split_call.content :
          /\ split_call.content[i].body = BlankBody
          /\ split_call.content[j].indent
          /\ split_call.content[j].body # BlankBody

\* C18: split_markdown gives the units in reading order, numbers them
\* 0, 1, 2, ... across the sections, and the kind in a unit's metadata is the
\* unit's kind
C18_SequenceIndex ==
    MarkdownReturned =>
        /\ \A i \in DOMAIN parent_nodes :
              /\ parent_nodes[i].metadata.chunk_index = i - 1
              /\ parent_nodes[i].metadata.type = parent_nodes[i].type
        /\ trimmed(unit_lines(parent_nodes, Len(parent_nodes)))
              = trimmed(non_blank(split_call.content))

\* C18 witness: two sections, the second one starting at index 2 or later
C18_Witness ==
    /\ MarkdownReturned
    /\ \E i \in DOMAIN parent_nodes :
          /\ i >= 3
          /\ parent_nodes[i].metadata.section_header = "Budget"
          /\ parent_nodes[1].metadata.section_header = "Safety"
          /\ parent_nodes[i].metadata.chunk_index = i - 1

\* the units written out in order, with the lines of sep between two units
RECURSIVE reserialized(_, _, _)
reserialized(units, n, sep) ==
    IF n = 0 THEN <<>>
    ELSE IF n = 1 THEN units[1].content
    ELSE reserialized(units, n - 1, sep) \o sep \o units[n].content
NewlineJoin == <<>>
BlankLineJoin == <<Line(FALSE, BlankBody)>>
resplit(sep) ==
    split_section_content(reserialized(sub_chunks, Len(sub_chunks), sep))

\* C19: splitting the concatenation of the units of a section gives the same
\* units again: same number, kinds and contents, whether the units are
\* concatenated line after line or with a blank line between them
C19_Idempotent ==
    SectionReturned =>
        \/ resplit(NewlineJoin) = sub_chunks
        \/ resplit(BlankLineJoin) = sub_chunks

----------------------------------------------------------------------------
(* Properties of the chunker (SpecChunk) *)

ChunkReturned == pc_split = "returned" /\ split_call.op = "chunk"

\* C20: every fragment chunk_text returns, the single fragment of a short
\* unit included, carries the parent's metadata, its own index and the total
\* count; the indices are 0..total-1 in output order and total is the number
\* of fragments
C20_ChunkMetadata ==
    ChunkReturned =>
        \A i \in DOMAIN child_nodes :
            LET metadata == child_nodes[i].metadata
                parent_metadata == parent_nodes[1].metadata
            IN  /\ \A k \in DOMAIN parent_metadata :
                      /\ k \in DOMAIN metadata
                      /\ metadata[k] = parent_metadata[k]
                /\ "child_chunk_index" \in DOMAIN metadata
                /\ "total_child_chunks" \in DOMAIN metadata
                /\ metadata.child_chunk_index = i - 1
                /\ metadata.total_child_chunks = Len(child_nodes)

----------------------------------------------------------------------------
(* Properties of the ingestion pipeline (SpecPipeline, SpecStore) *)

PipelineReturned == pc_ingest = "returned"
InUnit == pc_ingest \in {"insert_parent", "insert_child"}
Log == ingest.log
Stored(k) == Log[k].outcome = "stored"
ChildrenOf(parent_id) == {c \in child_vectors : c.parent_id = parent_id}
ParentsOfType(type) == {p \in parent_docs : p.metadata.type = type}

\* C13: every child_vectors row refers to a parent_docs row that is in the
\* store, in every state
C13_ReferentialIntegrity ==
    \A c \in child_vectors : \E p \in parent_docs : p.id = c.parent_id

\* C14: a unit that fails does not abort ingest_document: the units are
\* attempted once each in document order, whatever failed before; nothing
\* stored is removed again; and ingest_document ends by returning statistics
\* that count what was stored
C14_FailureIsolation ==
    /\ [](pc_ingest # "raised")
    /\ [](\A k \in DOMAIN Log : Log[k].node = k)
    /\ [](PipelineReturned =>
             /\ Len(Log) = Len(ingest.nodes)
             /\ ingest.stats.parent_nodes = Cardinality(parent_docs)
             /\ ingest.stats.parent_nodes
                   = Cardinality({k \in DOMAIN Log : Log[k].outcome # "parent failed"})
             /\ ingest.stats.child_vectors = Cardinality(child_vectors))
    /\ [][/\ parent_docs \subseteq parent_docs'
          /\ child_vectors \subseteq child_vectors']_vars
    /\ (InUnit ~> PipelineReturned)

\* C14 witness: a unit failed after its parent was stored, a later unit was
\* stored in full, and the parent of the failed unit is still there
C14_Witness ==
    /\ PipelineReturned
    /\ \E k, m \in DOMAIN Log :
          /\ k < m
          /\ Log[k].outcome = "child failed"
          /\ Stored(m)
          /\ \E p \in parent_docs : p.id = Log[k].parent_id
          /\ ChildrenOf(Log[m].parent_id) # {}

C16_EndToEnd ==
    (/\ PipelineReturned
     /\ ingest.doc.heading
     /\ Len(ingest.doc.blocks) = 3
     /\ {ingest.doc.blocks[i] : i \in DOMAIN ingest.doc.blocks}
           \in {{"paragraph", "table", "image"},
                {"long paragraph", "table", "image"}}
     /\ \A k \in DOMAIN Log : Stored(k) /\ Log[k].generator # "failed")
    => /\ \A type \in {"text", "table", "image"} :
             Cardinality(ParentsOfType(type)) = 1
       /\ \A p \in parent_docs : ChildrenOf(p.id) # {}

----------------------------------------------------------------------------
(* Properties of the embedding model (SpecEmbed) *)

DocumentsReturned == pc_embed = "returned" /\ embed_call.op = "documents"

\* C21: embed_documents returns exactly one vector per input text, in input
\* order, and the vector of every empty or whitespace-only text is the zero
\* vector, for every input list, also one that mixes empty and non-empty texts.
C21_OneVectorPerText ==
    DocumentsReturned =>
        /\ Len(embeddings) = Len(embed_call.texts)
        /\ \A i \in DOMAIN embed_call.texts :
              i \in DOMAIN embeddings =>
                  embeddings[i] = IF is_valid_text(embed_call.texts[i])
                                  THEN model_embed(embed_call.texts[i])
                                  ELSE ZeroVector

----------------------------------------------------------------------------
(* Properties of POST /query (SpecApi) *)

SourceTypes == {response.sources[i].type : i \in DOMAIN response.sources}

\* C22: query honours its content-kind flags: with include_tables false no
\* returned source has kind table, and with include_images false no returned
\* source has kind image.
C22_HonoursKindFlags ==
    (Returned /\ call.op = "query_system") =>
        /\ ~call.include_tables => "table" \notin SourceTypes
        /\ ~call.include_images => "image" \notin SourceTypes

----------------------------------------------------------------------------
(* Properties of the parent fetch (SpecRetrieval) *)

\* the candidates whose parent cannot be fetched
Dropped == DOMAIN call.child_matches \ Fetched

\* C27: a candidate whose parent cannot be fetched (not found, or the fetch
\* raises) is dropped and the search goes on: the search returns, no result
\* comes from a dropped candidate, and every candidate whose parent was
\* fetched is in the result unless top_k results at least as similar fill it
C27_MissingParentDropped ==
    (Returned /\ call.op = "search") =>
        /\ \A k \in DOMAIN results : results[k].child \in Fetched
        /\ \A i \in Fetched :
              \/ call.child_matches[i].parent_id \in ResultParents
              \/ /\ Len(results) = call.top_k
                 /\ \A k \in DOMAIN results :
                       results[k].similarity_score
                           >= call.child_matches[i].similarity

\* a search whose first candidate raises in the fetch and whose second has
\* no parent row, and that returns the third
C27_Witness ==
    /\ Returned
    /\ call.op = "search"
    /\ Len(call.child_matches) = 3
    /\ 1 \in call.raising
    /\ call.child_matches[2].parent_id \notin parent_documents
    /\ 2 \notin call.raising
    /\ Len(results) = 1
    /\ results[1].child = 3

----------------------------------------------------------------------------
(* Properties of the result order (SpecRetrieval) *)

\* C23: two results of one search with equal similarity appear in the order
\* in which their kept candidates occur in the candidate list, also when a
\* parent's kept candidate is not the first one seen for that parent.
C23_TiesInCandidateOrder ==
    Returned =>
        \A i, j \in DOMAIN results :
            (i < j /\ results[i].similarity_score = results[j].similarity_score)
                => results[i].child < results[j].child

----------------------------------------------------------------------------
(* Properties of create_role (SpecRoles) *)

\* C30: create_role is all-or-nothing: when it raises, after the failed
\* insert of the role or after a failure of the embedding or of the vector
\* insert, no record of the role is left in table roles.
C30_CreateRoleAllOrNothing ==
    [][\A p \in Procs :
          (/\ proc[p].op = "create"
           /\ proc'[p].pc = "idle"
           /\ proc'[p].outcome # "vectorized")
              => roles'[proc[p].role_id] = NoText]_vars

----------------------------------------------------------------------------
(* Properties of the matches of route_document (SpecRoute) *)

\* the role matches a routing result holds: its list and its best match
RoutedMatches ==
    {routing.matches[i] : i \in DOMAIN routing.matches}
        \cup ({routing.best_match} \ {NoMatch})

\* C29: every role match of a route_document result, in matches and as
\* best_match, a fallback match included, carries the tier of its similarity:
\* high iff similarity >= 0.8, medium iff 0.65 <= similarity < 0.8, low
\* otherwise.
C29_MatchTierOfSimilarity ==
    RouteReturned =>
        \A m \in RoutedMatches :
            /\ m.confidence = "high" <=> m.similarity >= 80
            /\ m.confidence = "medium" <=> (m.similarity >= 65 /\ m.similarity < 80)
            /\ m.confidence = "low" <=> m.similarity < 65

----------------------------------------------------------------------------
(* Properties of the units of a section (SpecSplit) *)

\* the number of non-blank lines among the first i lines of the section
Rank(i) == Len(non_blank(SubSeq(split_call.content, 1, i)))

\* the unit that holds the k-th non-blank line of the section (C17: the
\* units hold the non-blank lines in order); 0 if no unit does
UnitOf(k) ==
    LET holding == {u \in DOMAIN sub_chunks : Len(unit_lines(sub_chunks, u)) >= k}
    IN  IF holding = {} THEN 0
        ELSE CHOOSE u \in holding : \A v \in holding : u <= v

IsTextLine(line) ==
    ~is_blank_line(line) /\ ~is_table_line(line) /\ ~is_image_line(line)

\* lines i and j of the section have only lines of kind Same(_) and blank
\* lines between them
OnlyBlanksBetween(i, j, Same(_)) ==
    \A k \in (i + 1)..(j - 1) :
        is_blank_line(split_call.content[k]) \/ Same(split_call.content[k])

\* C24: a blank line neither starts a new unit nor ends an open table run:
\* table rows separated only by blank lines are in one table unit, text
\* lines separated only by blank lines are in one text unit.
C24_BlankKeepsRunOpen ==
    SectionReturned =>
        \A i, j \in DOMAIN split_call.content :
            LET li == split_call.content[i]
                lj == split_call.content[j]
            IN  /\ (/\ i < j
                    /\ is_table_line(li) /\ ~is_image_line(li)
                    /\ is_table_line(lj) /\ ~is_image_line(lj)
                    /\ OnlyBlanksBetween(i, j, LAMBDA l : is_table_line(l)
                                                        /\ ~is_image_line(l)))
                       => /\ UnitOf(Rank(i)) = UnitOf(Rank(j))
                          /\ UnitOf(Rank(i)) # 0
                /\ (/\ i < j
                    /\ IsTextLine(li)
                    /\ IsTextLine(lj)
                    /\ OnlyBlanksBetween(i, j, IsTextLine))
                       => /\ UnitOf(Rank(i)) = UnitOf(Rank(j))
                          /\ UnitOf(Rank(i)) # 0

\* C25: the kind of every unit agrees with its lines: an image unit is one
\* image line, a unit of table rows only is typed table, and a unit typed
\* text holds no table row and no image line; so a table run that follows an
\* image that followed a table is typed table, also at the end of the section.
C25_KindMatchesLines ==
    SectionReturned =>
        \A u \in DOMAIN sub_chunks :
            LET unit == sub_chunks[u]
                rows == {k \in DOMAIN unit.content :
                            is_table_line(unit.content[k])}
                images == {k \in DOMAIN unit.content :
                              is_image_line(unit.content[k])}
            IN  /\ unit.type \in {"text", "table", "image"}
                /\ unit.type = "image" =>
                      Len(unit.content) = 1 /\ images = {1}
                /\ (unit.content # <<>> /\ rows = DOMAIN unit.content) =>
                      unit.type = "table"
                /\ unit.type = "text" => rows = {} /\ images = {}

\* C26: a section whose scan finds no unit (no line, or blank lines only)
\* gives exactly one unit, of kind text, holding the trimmed content, which
\* is empty; every unit of any other section has content, so every section
\* gives at least one unit.
C26_NoSectionDropped ==
    SectionReturned =>
        /\ Len(sub_chunks) >= 1
        /\ non_blank(split_call.content) = <<>> =>
              sub_chunks = <<[content |-> <<>>, type |-> "text"]>>
        /\ non_blank(split_call.content) # <<>> =>
              \A u \in DOMAIN sub_chunks :
                  /\ sub_chunks[u].content # <<>>
                  /\ non_blank(sub_chunks[u].content) # <<>>

\* a section of blank lines only, returned as one empty text unit
C26_Witness ==
    /\ SectionReturned
    /\ Len(split_call.content) >= 2
    /\ non_blank(split_call.content) = <<>>
    /\ \E k \in DOMAIN split_call.content : split_call.content[k].indent
    /\ sub_chunks = <<[content |-> <<>>, type |-> "text"]>>

----------------------------------------------------------------------------
(* Properties of retrieval over an ingested store (SpecStoreSearch) *)

\* C28: every parent unit that ingestion wrote is found by the retriever's
\* parent lookup: in a store filled by ingest_document only, no fragment
\* that the vector search returned is dropped as 'parent not found'.
C28_IngestedParentFound ==
    (Returned /\ call.op = "store_search") =>
        \A i \in DOMAIN call.child_matches :
            /\ \E p \in parent_docs : p.id = call.child_matches[i].parent_id
            /\ i \in Fetched

====
